---- MODULE Spec2Model ----
(***************************************************************************)
(* A model of optimum/intel/openvino/quantization.py: the graph constant   *)
(* resolver (_get_operation_const_op), the weight operation classifier     *)
(* (_is_embedding, _collect_ops_with_weights), the hybrid quantization     *)
(* policy (_hybrid_quantization, _weight_only_quantization) and the        *)
(* orchestrator OVQuantizer.quantize with its two dispatch paths.          *)
(***************************************************************************)
EXTENDS Integers, Sequences, FiniteSets, TLC

(***************************************************************************)
(* Bounds of the model.                                                    *)
(***************************************************************************)
\* Number of operations of the graphs the resolver is run on.
MaxNodes == 4
\* Number of operations of the graphs the classifier is run on.
ClassifierNodes == 3
\* Number of operations of the graphs hybrid quantization is run on.
HybridNodes == 3
\* Number of hybrid runs with one configuration object.
MaxRuns == 2
\* Number of batches of the calibration dataloader.
MaxBatches == 2
MaxInfer == 2
MaxCalls == 2

\* Python's None where a reference to an operation or an object is expected:
\* operations and objects are numbered from 1.
None == 0

(***************************************************************************)
(* The computation graph (openvino.runtime.Model as the code reads it).    *)
(* A graph is a sequence of operations in topological order; operation i   *)
(* is the record [type, in, et]: its type name, the producers of its input *)
(* ports (port p is in[p+1]) and the element type of its output.  The      *)
(* friendly name of operation i is i.                                      *)
(***************************************************************************)
NullaryTypes == {"Constant", "Parameter"}
UnaryTypes == {"Convert"}
BinaryTypes == {"Reshape", "FakeQuantize", "Add", "MatMul", "Gather", "Convolution"}

FloatTypes == {"f16", "f32", "f64"}
IntTypes == {"i64"}

\* The operations that can be appended to the graph g, whose types are taken
\* from ts and whose freely chosen element types are taken from ets.  A
\* Constant, a Parameter and a Convert fix their output element type; every
\* other operation yields the element type of its input port 0.
OpsOver(g, ts, ets) ==
    LET prev == 1..Len(g) IN
    {[type |-> t, in |-> <<>>, et |-> e] : t \in NullaryTypes \cap ts, e \in ets}
    \cup {[type |-> t, in |-> <<a>>, et |-> e] :
              t \in UnaryTypes \cap ts, a \in prev, e \in ets}
    \cup {[type |-> t, in |-> <<a, b>>, et |-> g[a].et] :
              t \in BinaryTypes \cap ts, a \in prev, b \in prev}

\* Every operation but the last one feeds a later operation: the graph is the
\* last operation together with its ancestors.
IsCone(g) ==
    \A a \in 1..(Len(g) - 1) :
        \E b \in (a + 1)..Len(g) : \E p \in 1..Len(g[b].in) : g[b].in[p] = a

\* operation.input_value(port).get_node(), ports counted from 0.
input_node(g, op, port) == g[op].in[port + 1]

VARIABLES
    graph,            \* the model graph
    operation,        \* _get_operation_const_op: its arguments ...
    const_port_id,
    queue,            \* ... and its locals
    constant_node,
    visited,          \* the nodes the loop has taken from the queue, in order
    rpc,              \* position in _get_operation_const_op
    ops_with_weights, \* _collect_ops_with_weights: its result
    cpc,              \* position in _collect_ops_with_weights
    heap,             \* the Python objects the caller and the call hold
    entry_scope,      \* the caller's ignored scope when the last call began
    wc_call,          \* what nncf.compress_weights was last called with
    ptq_call,         \* what nncf.quantize was last called with
    hpc,              \* position of the hybrid runs
    runs,             \* number of hybrid runs made
    args,             \* OVQuantizer.quantize: the quantizer and the arguments
    self_task,        \* self.task
    events,           \* the calls made to the file system and the engines
    outcome,          \* "none", "returned" or the exception raised
    locals,           \* locals of _quantize_ovbasemodel / _quantize_torchmodel
    qpc,              \* position in quantize
    request,          \* model.request: the wrappers around the original request
    capture,          \* the capture phase of _quantize_ovbasemodel: its locals
    kpc,              \* position in the capture phase
    phases,           \* capture phases entered so far
    late,             \* an inference was made after the last capture phase
    cached,           \* an InferRequestWrapper with apply_caching=True
    plain             \* an InferRequestWrapper with apply_caching=False

resolverVars == <<operation, const_port_id, queue, constant_node, visited, rpc>>
classifierVars == <<ops_with_weights, cpc>>
hybridVars == <<heap, entry_scope, wc_call, ptq_call, hpc, runs>>
quantizeVars == <<args, self_task, events, outcome, locals, qpc>>
captureVars == <<request, capture, kpc, phases, late>>
cachingVars == <<cached, plain>>
vars == <<graph, resolverVars, classifierVars, hybridVars, quantizeVars, captureVars,
          cachingVars>>

ResolverIdle ==
    /\ operation = None
    /\ const_port_id = 0
    /\ queue = <<>>
    /\ constant_node = None
    /\ visited = <<>>
    /\ rpc = "idle"

ClassifierIdle ==
    /\ ops_with_weights = <<>>
    /\ cpc = "idle"

NoCall == [called |-> FALSE]

\* The empty dict {}.
EmptyDict == [k \in {} |-> None]

HybridIdle ==
    /\ heap = <<>>
    /\ entry_scope = [given |-> FALSE, scope |-> EmptyDict]
    /\ wc_call = NoCall
    /\ ptq_call = NoCall
    /\ hpc = "idle"
    /\ runs = 0

NoLocals ==
    [task |-> "None", stateful_is_available |-> FALSE,
     task_support_stateful |-> FALSE, stateful |-> FALSE,
     calibration |-> "None", is_onnx |-> FALSE]

QuantizeIdle ==
    /\ args = [model |-> "None"]
    /\ self_task = "None"
    /\ events = <<>>
    /\ outcome = "none"
    /\ locals = NoLocals
    /\ qpc = "idle"

\* InferRequestWrapper.__init__; calls, unbound and forwarded keep the history
\* of the wrapper: the calls made through it, those that raised before
\* collecting, and what it handed to the request it wraps.
InferRequestWrapper(apply_caching) ==
    [collected_inputs |-> <<>>, apply_caching |-> apply_caching,
     tensor_cache |-> <<>>, calls |-> 0, unbound |-> 0, forwarded |-> <<>>]

NoCapture ==
    [batches |-> 0, batch |-> 0, subset_size |-> 0, remaining |-> 0,
     at_start |-> 0, single |-> TRUE, pending |-> FALSE]

CaptureIdle ==
    /\ request = <<>>
    /\ capture = NoCapture
    /\ kpc = "idle"
    /\ phases = 0
    /\ late = FALSE

CachingIdle ==
    /\ cached = InferRequestWrapper(TRUE)
    /\ plain = InferRequestWrapper(FALSE)

(***************************************************************************)
(* _get_operation_const_op: the breadth-first backward search.             *)
(***************************************************************************)
\* A plausible slip: Reshape is left out of the list.
allowed_propagation_types_without_reshape == {"Convert", "FakeQuantize"}

allowed_propagation_types_list == {"Convert", "FakeQuantize", "Reshape"}

\* A plausible slip: the node itself is queued again instead of its input.
ResolverLoopBodyRequeue(g, st) ==
    LET curr_node == Head(st.queue)
        rest == Tail(st.queue)
    IN  IF g[curr_node].type = "Constant"
        THEN [queue |-> rest, constant_node |-> curr_node, stop |-> TRUE]
        ELSE IF Len(g[curr_node].in) = 0
        THEN [queue |-> rest, constant_node |-> st.constant_node, stop |-> TRUE]
        ELSE IF g[curr_node].type \in allowed_propagation_types_list
        THEN [queue |-> Append(rest, curr_node),
              constant_node |-> st.constant_node, stop |-> FALSE]
        ELSE [queue |-> rest, constant_node |-> st.constant_node, stop |-> FALSE]

\* One iteration of the while loop on the loop state [queue, constant_node,
\* stop]; stop is set by either break.
ResolverLoopBody(g, st) ==
    LET curr_node == Head(st.queue)
        rest == Tail(st.queue)
    IN  IF g[curr_node].type = "Constant"
        THEN [queue |-> rest, constant_node |-> curr_node, stop |-> TRUE]
        ELSE IF Len(g[curr_node].in) = 0
        THEN [queue |-> rest, constant_node |-> st.constant_node, stop |-> TRUE]
        ELSE IF g[curr_node].type \in allowed_propagation_types_list
        THEN [queue |-> Append(rest, input_node(g, curr_node, 0)),
              constant_node |-> st.constant_node, stop |-> FALSE]
        ELSE [queue |-> rest, constant_node |-> st.constant_node, stop |-> FALSE]

ResolverLoopDone(st) == st.stop \/ Len(st.queue) = 0

ResolverStart(g, op, port) ==
    [queue |-> <<input_node(g, op, port)>>, constant_node |-> None, stop |-> FALSE]

RECURSIVE ResolverRun(_, _)
ResolverRun(g, st) ==
    IF ResolverLoopDone(st) THEN st.constant_node
    ELSE ResolverRun(g, ResolverLoopBody(g, st))

\* The function as a whole.
get_operation_const_op(g, op, port) == ResolverRun(g, ResolverStart(g, op, port))

ResolverTypes ==
    {"Constant", "Parameter", "Convert", "Reshape", "FakeQuantize", "Add", "MatMul"}

\* The resolver reads the graph only through input_value, upstream of the
\* operation it is called on: the inputs are the graphs made of that operation
\* (the last one) and its ancestors.
InitResolver ==
    /\ graph = <<>>
    /\ ResolverIdle
    /\ ClassifierIdle
    /\ HybridIdle
    /\ QuantizeIdle
    /\ CaptureIdle
    /\ CachingIdle

\* The graph under resolution is built one operation at a time.
ResolverAddOp ==
    /\ rpc = "idle"
    /\ Len(graph) < MaxNodes
    /\ \E nd \in OpsOver(graph, ResolverTypes, {"f32"}) : graph' = Append(graph, nd)
    /\ UNCHANGED <<resolverVars, classifierVars, hybridVars, quantizeVars, captureVars,
                   cachingVars>>

\* The call: lines 630-633.
ResolverCall ==
    /\ rpc = "idle"
    /\ Len(graph) > 0
    /\ IsCone(graph)
    /\ \E port \in 0..(Len(graph[Len(graph)].in) - 1) :
          /\ operation' = Len(graph)
          /\ const_port_id' = port
          /\ queue' = ResolverStart(graph, Len(graph), port).queue
    /\ constant_node' = None
    /\ visited' = <<>>
    /\ rpc' = "loop"
    /\ UNCHANGED <<graph, classifierVars, hybridVars, quantizeVars, captureVars,
                   cachingVars>>

\* One iteration of the loop, or the return once the loop is left.
ResolverIterate ==
    /\ rpc = "loop"
    /\ LET st == [queue |-> queue, constant_node |-> constant_node, stop |-> FALSE]
           nx == ResolverLoopBody(graph, st)
       IN  /\ Len(queue) # 0
           /\ queue' = nx.queue
           /\ constant_node' = nx.constant_node
           /\ visited' = Append(visited, Head(queue))
           /\ rpc' = IF ResolverLoopDone(nx) THEN "returned" ELSE "loop"
    /\ UNCHANGED <<graph, operation, const_port_id, classifierVars, hybridVars,
                   quantizeVars, captureVars,
                   cachingVars>>

NextResolver == ResolverAddOp \/ ResolverCall \/ ResolverIterate

SpecResolver == InitResolver /\ [][NextResolver]_vars

(***************************************************************************)
(* C8.  When the resolver returns, its result is the Constant that ends    *)
(* the chain starting at the producer of the port and following input port *)
(* 0 through Convert, FakeQuantize and Reshape operations, and it is None  *)
(* when that chain ends at any other operation (one without inputs that is *)
(* not a Constant, or one of another type).                                *)
(***************************************************************************)
TransparentTypes == {"Convert", "FakeQuantize", "Reshape"}

RECURSIVE ChainEnd(_, _)
ChainEnd(g, n) ==
    IF g[n].type \in TransparentTypes /\ Len(g[n].in) > 0
    THEN ChainEnd(g, g[n].in[1])
    ELSE n

ChainConstant(g, op, port) ==
    LET e == ChainEnd(g, g[op].in[port + 1])
    IN  IF g[e].type = "Constant" THEN e ELSE None

C8_ResolverFollowsChain ==
    rpc = "returned" =>
        constant_node = ChainConstant(graph, operation, const_port_id)

\* Constant -> Convert -> Reshape -> MatMul, resolved on port 0 of the MatMul.
C8_Witness ==
    /\ rpc = "returned"
    /\ Len(graph) = 4
    /\ graph[1].type = "Constant"
    /\ graph[2].type = "Convert" /\ graph[2].in = <<1>>
    /\ graph[3].type = "Reshape" /\ graph[3].in[1] = 2
    /\ graph[4].type = "MatMul" /\ graph[4].in[1] = 3
    /\ operation = 4 /\ const_port_id = 0
    /\ constant_node = 1

(***************************************************************************)
(* _is_embedding and _collect_ops_with_weights: the classifier.            *)
(***************************************************************************)
allowed_types_list == {"f16", "f32", "f64"}

\* A plausible slip: the element type of the table is not looked at.
is_embedding_any_type(g, node) == get_operation_const_op(g, node, 0) # None

\* input_tensor is the output of the producer of port 0; its element type is
\* that producer's output element type.
is_embedding(g, node) ==
    LET const_port_id_ == 0
        input_tensor_type == g[input_node(g, node, const_port_id_)].et
    IN  IF input_tensor_type \in allowed_types_list
        THEN get_operation_const_op(g, node, const_port_id_) # None
        ELSE FALSE

\* The body of the for loop on operation op, acc being ops_with_weights.
collect_loop_body(g, op, acc) ==
    LET after_matmul ==
            IF g[op].type = "MatMul"
            THEN LET constant_node_0 == get_operation_const_op(g, op, 0)
                     constant_node_1 == get_operation_const_op(g, op, 1)
                 IN  IF constant_node_0 # None \/ constant_node_1 # None
                     THEN Append(acc, op)
                     ELSE acc
            ELSE acc
    IN  IF g[op].type = "Gather" /\ is_embedding(g, op)
        THEN Append(after_matmul, op)
        ELSE after_matmul

RECURSIVE collect_loop(_, _, _)
collect_loop(g, op, acc) ==
    IF op > Len(g) THEN acc
    ELSE collect_loop(g, op + 1, collect_loop_body(g, op, acc))

collect_ops_with_weights(g) == collect_loop(g, 1, <<>>)

ClassifierTypes == NullaryTypes \cup UnaryTypes \cup BinaryTypes
ElementTypes == FloatTypes \cup IntTypes

InitClassifier ==
    /\ graph = <<>>
    /\ ResolverIdle
    /\ ClassifierIdle
    /\ HybridIdle
    /\ QuantizeIdle
    /\ CaptureIdle
    /\ CachingIdle

ClassifierAddOp ==
    /\ cpc = "idle"
    /\ Len(graph) < ClassifierNodes
    /\ \E nd \in OpsOver(graph, ClassifierTypes, ElementTypes) :
          graph' = Append(graph, nd)
    /\ UNCHANGED <<resolverVars, classifierVars, hybridVars, quantizeVars, captureVars,
                   cachingVars>>

\* _collect_ops_with_weights(model), as a whole.
Collect ==
    /\ cpc = "idle"
    /\ ops_with_weights' = collect_ops_with_weights(graph)
    /\ cpc' = "collected"
    /\ UNCHANGED <<graph, resolverVars, hybridVars, quantizeVars, captureVars,
                   cachingVars>>

NextClassifier == ClassifierAddOp \/ Collect

SpecClassifier == InitClassifier /\ [][NextClassifier]_vars

Range(seq) == {seq[i] : i \in 1..Len(seq)}

MatMulsWithConstant(g) ==
    {op \in 1..Len(g) :
        /\ g[op].type = "MatMul"
        /\ \/ get_operation_const_op(g, op, 0) # None
           \/ get_operation_const_op(g, op, 1) # None}

(***************************************************************************)
(* C9, as claimed.  The classifier returns exactly the MatMul operations   *)
(* with a constant found on port 0 or port 1 and the Gather operations     *)
(* whose table is a floating-point constant; a Gather whose table constant *)
(* is integer-typed is excluded, also when that constant reaches the       *)
(* Gather through a Convert to a floating-point type.                      *)
(***************************************************************************)
GathersOverIntConstant(g) ==
    {op \in 1..Len(g) :
        /\ g[op].type = "Gather"
        /\ get_operation_const_op(g, op, 0) # None
        /\ g[get_operation_const_op(g, op, 0)].et \in IntTypes}

GathersOverFloatInput(g) ==
    {op \in 1..Len(g) :
        /\ g[op].type = "Gather"
        /\ g[g[op].in[1]].et \in FloatTypes
        /\ get_operation_const_op(g, op, 0) # None}

C9_AsClaimed ==
    cpc = "collected" =>
        /\ Range(ops_with_weights) =
               MatMulsWithConstant(graph) \cup GathersOverFloatInput(graph)
        /\ Range(ops_with_weights) \cap GathersOverIntConstant(graph) = {}

(***************************************************************************)
(* C9, amended.  The classifier returns exactly the MatMul operations with *)
(* a constant found on port 0 or port 1 and the Gather operations whose    *)
(* port-0 input value has a floating-point element type and for which the  *)
(* resolver finds a constant on port 0, each once: the element type looked *)
(* at is that of the value feeding the Gather, not that of the constant.   *)
(***************************************************************************)
C9_ClassifierResult ==
    cpc = "collected" =>
        /\ Range(ops_with_weights) =
               MatMulsWithConstant(graph) \cup GathersOverFloatInput(graph)
        /\ Len(ops_with_weights) = Cardinality(Range(ops_with_weights))

\* Constant(i64) -> Convert(f32) -> Gather: the Gather is collected.
C9_Witness ==
    /\ cpc = "collected"
    /\ Len(graph) = 3
    /\ graph[1].type = "Constant" /\ graph[1].et = "i64"
    /\ graph[2].type = "Convert" /\ graph[2].et = "f32"
    /\ graph[3].type = "Gather" /\ graph[3].in[1] = 2
    /\ 3 \in Range(ops_with_weights)

(***************************************************************************)
(* Python objects.  The heap is a sequence of objects and a reference is   *)
(* an index into it, so that two names of one list are one index: a list   *)
(* is [kind |-> "list", items |-> <<...>>], a dict maps its keys to        *)
(* references, an OVWeightQuantizationConfig and an nncf.IgnoredScope hold *)
(* their fields.                                                           *)
(***************************************************************************)
ListObj(items) == [kind |-> "list", items |-> items]
DictObj(items) == [kind |-> "dict", items |-> items]
ConfigObj(fields) == [kind |-> "config", items |-> fields]
ScopeObj(fields) == [kind |-> "IgnoredScope", items |-> fields]

\* isinstance(x, dict) for a reference x.
IsDict(h, ref) == ref # None /\ h[ref].kind = "dict"

\* d[key] = ref for the dict at d.
DictSet(h, d, key, ref) ==
    [h EXCEPT ![d].items =
        [k \in DOMAIN h[d].items \cup {key} |->
            IF k = key THEN ref ELSE h[d].items[k]]]

\* l += more for the list at l: list.__iadd__ extends the object in place.
ListExtend(h, l, more) == [h EXCEPT ![l].items = h[l].items \o more]

\* The fields of nncf.IgnoredScope that the dict can set, in the order of its
\* dataclass definition.
ScopeKeys == <<"names", "patterns", "types">>

\* nncf.IgnoredScope(**d): a dataclass; a field takes the very object passed
\* for it and a fresh empty list (default_factory) when the key is absent.
RECURSIVE ScopeFields(_, _, _, _)
ScopeFields(h, d, i, acc) ==
    IF i > Len(ScopeKeys) THEN [heap |-> h, fields |-> acc]
    ELSE LET k == ScopeKeys[i] IN
         IF k \in DOMAIN h[d].items
         THEN ScopeFields(h, d, i + 1, [acc EXCEPT ![k] = h[d].items[k]])
         ELSE ScopeFields(Append(h, ListObj(<<>>)), d, i + 1,
                          [acc EXCEPT ![k] = Len(h) + 1])

NewIgnoredScope(h, d) ==
    LET r == ScopeFields(h, d, 1, [names |-> None, patterns |-> None, types |-> None])
    IN  [heap |-> Append(r.heap, ScopeObj(r.fields)), ref |-> Len(r.heap) + 1]

\* What the engine reads in an IgnoredScope object when it is called.
ScopeValue(h, sc) ==
    [names |-> h[h[sc].items.names].items,
     patterns |-> h[h[sc].items.patterns].items,
     types |-> h[h[sc].items.types].items]

\* copy.deepcopy of the dict at d: a new dict of new lists.
RECURSIVE CopyDict(_, _, _, _)
CopyDict(h, d, i, acc) ==
    IF i > Len(ScopeKeys) THEN [heap |-> Append(h, DictObj(acc)), ref |-> Len(h) + 1]
    ELSE LET k == ScopeKeys[i] IN
         IF k \in DOMAIN h[d].items
         THEN CopyDict(Append(h, h[h[d].items[k]]), d, i + 1,
                       [x \in DOMAIN acc \cup {k} |->
                           IF x = k THEN Len(h) + 1 ELSE acc[x]])
         ELSE CopyDict(h, d, i + 1, acc)

\* copy.deepcopy of the configuration at c.
DeepCopyConfig(h, c) ==
    IF IsDict(h, h[c].items.ignored_scope)
    THEN LET r == CopyDict(h, h[c].items.ignored_scope, 1, EmptyDict)
         IN  [heap |-> Append(r.heap,
                          [h[c] EXCEPT !.items.ignored_scope = r.ref]),
              ref |-> Len(r.heap) + 1]
    ELSE [heap |-> Append(h, h[c]), ref |-> Len(h) + 1]

\* The ignored scope of the configuration at c, by value: "None" or what each
\* key of the dict holds.
ConfigScope(h, c) ==
    LET d == h[c].items.ignored_scope
    IN  IF IsDict(h, d)
        THEN [k \in DOMAIN h[d].items |-> h[h[d].items[k]].items]
        ELSE EmptyDict

ConfigHasScope(h, c) == IsDict(h, h[c].items.ignored_scope)

\* The objects the caller still holds once a call has returned: the
\* configuration at reference 1, its dict at 2 and the dict's lists after it.
RECURSIVE CallerLists(_, _, _, _)
CallerLists(h, d, i, acc) ==
    IF i > Len(ScopeKeys) THEN acc
    ELSE LET k == ScopeKeys[i] IN
         IF k \in DOMAIN h[d].items
         THEN CallerLists(h, d, i + 1,
                  [lists |-> Append(acc.lists, h[h[d].items[k]]),
                   items |-> [x \in DOMAIN acc.items \cup {k} |->
                                 IF x = k THEN Len(acc.lists) + 3 ELSE acc.items[x]]])
         ELSE CallerLists(h, d, i + 1, acc)

CallerHeap(h, c) ==
    LET d == h[c].items.ignored_scope IN
    IF IsDict(h, d)
    THEN LET r == CallerLists(h, d, 1, [lists |-> <<>>, items |-> EmptyDict])
         IN  <<[h[c] EXCEPT !.items.ignored_scope = 2], DictObj(r.items)>> \o r.lists
    ELSE <<h[c]>>

(***************************************************************************)
(* _weight_only_quantization: the call of nncf.compress_weights it makes   *)
(* for the configuration object at c.                                      *)
(***************************************************************************)
DefaultNumSamples == 128
DatasetSeqLen == 32

NoDataset == [kind |-> "none", name |-> "", nsamples |-> 0]
InlineDataset == [kind |-> "samples", name |-> "", nsamples |-> 0]
NamedDataset(name) == [kind |-> "str", name |-> name, nsamples |-> 0]

\* getattr(SensitivityMetric, config.sensitivity_metric.upper()) for a str,
\* None otherwise.
SensitivityMetricOf(metric) ==
    CASE metric = "weight_quantization_error" -> "WEIGHT_QUANTIZATION_ERROR"
      [] metric = "hessian_input_activation" -> "HESSIAN_INPUT_ACTIVATION"
      [] metric = "max_activation_variance" -> "MAX_ACTIVATION_VARIANCE"
      [] OTHER -> "None"

CompressWeightsModeOf(bits, sym) ==
    IF bits = 8
    THEN (IF sym THEN "INT8_SYM" ELSE "INT8_ASYM")
    ELSE (IF sym THEN "INT4_SYM" ELSE "INT4_ASYM")

NoScope == [given |-> FALSE, names |-> <<>>, patterns |-> <<>>, types |-> <<>>]
GivenScope(v) ==
    [given |-> TRUE, names |-> v.names, patterns |-> v.patterns, types |-> v.types]

weight_only_quantization(h, c) ==
    LET config == h[c].items
        dataset ==
            IF config.dataset.kind = "str"
            THEN [kind |-> "loaded", name |-> config.dataset.name,
                  nsamples |-> IF config.num_samples # None
                               THEN config.num_samples ELSE DefaultNumSamples]
            ELSE config.dataset
        sensitivity_metric == SensitivityMetricOf(config.sensitivity_metric)
        ignored_scope ==
            IF IsDict(h, config.ignored_scope)
            THEN LET r == NewIgnoredScope(h, config.ignored_scope)
                 IN  GivenScope(ScopeValue(r.heap, r.ref))
            ELSE NoScope
    IN  [called |-> TRUE,
         mode |-> CompressWeightsModeOf(config.bits, config.sym),
         ratio |-> config.ratio,
         group_size |-> config.group_size,
         all_layers |-> config.all_layers,
         sensitivity_metric |-> sensitivity_metric,
         ignored_scope |-> ignored_scope,
         dataset |-> dataset]

(***************************************************************************)
(* _hybrid_quantization, statement by statement on the heap h, for the     *)
(* graph g and the caller's configuration object at qc.                    *)
(***************************************************************************)
HybridSubsetSize == 200

hybrid_quantization(h, g, qc) ==
    LET ops_to_compress == collect_ops_with_weights(g)
        \* 694: the caller's dict itself, or a new empty dict
        given == IsDict(h, h[qc].items.ignored_scope)
        h694 == IF given THEN h ELSE Append(h, DictObj(EmptyDict))
        ignored_scope == IF given THEN h[qc].items.ignored_scope ELSE Len(h) + 1
        \* 695
        r695 == NewIgnoredScope(h694, ignored_scope)
        ptq_ignored_scope == r695.ref
        \* 696
        h696 == ListExtend(r695.heap, r695.heap[ptq_ignored_scope].items.names,
                           ops_to_compress)
        \* 698
        r698 == DeepCopyConfig(h696, qc)
        wc_quantization_config == r698.ref
        \* 699
        h699 == [r698.heap EXCEPT
                    ![wc_quantization_config].items.ignored_scope = ignored_scope]
        \* 700: the right-hand side is a new list
        types == IF "types" \in DOMAIN h699[ignored_scope].items
                 THEN h699[h699[ignored_scope].items["types"]].items
                 ELSE <<>>
        h700a == Append(h699, ListObj(types \o <<"Convolution">>))
        h700 == DictSet(h700a, h700a[wc_quantization_config].items.ignored_scope,
                        "types", Len(h700a))
        \* 701
        compress == weight_only_quantization(h700, wc_quantization_config)
        \* 703-712
        num_samples == h700[qc].items.num_samples
        quantize == [called |-> TRUE,
                     model_type |-> "transformer",
                     ignored_scope |-> GivenScope(ScopeValue(h700, ptq_ignored_scope)),
                     smooth_quant_matmul |-> -1,
                     subset_size |-> IF num_samples # None
                                     THEN num_samples ELSE HybridSubsetSize]
    IN  [heap |-> h700, compress_weights |-> compress, quantize |-> quantize]

(***************************************************************************)
(* Hybrid runs: a graph, a configuration object of the caller, and up to   *)
(* MaxRuns calls of _hybrid_quantization with that object.                 *)
(***************************************************************************)
HybridTypes == {"Constant", "Parameter", "MatMul", "Gather", "Convolution"}

\* The caller's configuration is the object at reference 1.
quantization_config == 1

HybridConfigFields(scope, num_samples) ==
    [bits |-> 8, sym |-> FALSE, ratio |-> "1.0", group_size |-> "-1",
     all_layers |-> "None", sensitivity_metric |-> "None",
     ignored_scope |-> scope, dataset |-> NoDataset, tokenizer |-> "None",
     num_samples |-> num_samples]

\* The ignored-scope dicts a caller may give: each key present or not.
UserNames(g) == {<<>>} \cup {<<op>> : op \in 1..Len(g)}
UserTypes == {<<>>, <<"Convolution">>, <<"MatMul">>}
UserPatterns == {<<>>}

UserScopes(g) ==
    {sc \in [keys : SUBSET {"names", "patterns", "types"},
             names : UserNames(g), patterns : UserPatterns, types : UserTypes] :
        /\ "names" \notin sc.keys => sc.names = <<>>
        /\ "patterns" \notin sc.keys => sc.patterns = <<>>
        /\ "types" \notin sc.keys => sc.types = <<>>}

\* The heap of a caller holding a configuration whose ignored scope is the
\* dict described by sc.
RECURSIVE UserLists(_, _, _)
UserLists(sc, i, acc) ==
    IF i > Len(ScopeKeys) THEN acc
    ELSE LET k == ScopeKeys[i] IN
         IF k \in sc.keys
         THEN UserLists(sc, i + 1,
                  [lists |-> Append(acc.lists, ListObj(sc[k])),
                   items |-> [x \in DOMAIN acc.items \cup {k} |->
                                 IF x = k THEN Len(acc.lists) + 3 ELSE acc.items[x]]])
         ELSE UserLists(sc, i + 1, acc)

UserHeap(sc, fields) ==
    LET r == UserLists(sc, 1, [lists |-> <<>>, items |-> EmptyDict])
    IN  <<ConfigObj([fields EXCEPT !.ignored_scope = 2]), DictObj(r.items)>> \o r.lists

UserNumSamples == {None, 100}

EntryScope(h, c) == [given |-> ConfigHasScope(h, c), scope |-> ConfigScope(h, c)]

InitHybrid ==
    /\ graph = <<>>
    /\ ResolverIdle
    /\ ClassifierIdle
    /\ HybridIdle
    /\ QuantizeIdle
    /\ CaptureIdle
    /\ CachingIdle

HybridAddOp ==
    /\ hpc = "idle"
    /\ Len(graph) < HybridNodes
    /\ \E nd \in OpsOver(graph, HybridTypes, {"f32"}) : graph' = Append(graph, nd)
    /\ UNCHANGED <<resolverVars, classifierVars, hybridVars, quantizeVars, captureVars,
                   cachingVars>>

\* The caller builds a configuration without an ignored scope ...
HybridConfigureNoScope ==
    /\ hpc = "idle"
    /\ Len(graph) > 0
    /\ \E n \in UserNumSamples :
          heap' = <<ConfigObj(HybridConfigFields(None, n))>>
    /\ hpc' = "ready"
    /\ UNCHANGED <<graph, resolverVars, classifierVars, entry_scope, wc_call,
                   ptq_call, runs, quantizeVars, captureVars,
                   cachingVars>>

\* ... or with an ignored-scope dict.
HybridConfigureScope ==
    /\ hpc = "idle"
    /\ Len(graph) > 0
    /\ \E sc \in UserScopes(graph) : \E n \in UserNumSamples :
          heap' = UserHeap(sc, HybridConfigFields(2, n))
    /\ hpc' = "ready"
    /\ UNCHANGED <<graph, resolverVars, classifierVars, entry_scope, wc_call,
                   ptq_call, runs, quantizeVars, captureVars,
                   cachingVars>>

\* One call of _hybrid_quantization(model, quantization_config, dataset); on
\* return the caller holds its configuration object and what it refers to.
HybridQuantization ==
    /\ hpc \in {"ready", "done"}
    /\ runs < MaxRuns
    /\ LET r == hybrid_quantization(heap, graph, quantization_config)
       IN  /\ heap' = CallerHeap(r.heap, quantization_config)
           /\ wc_call' = r.compress_weights
           /\ ptq_call' = r.quantize
    /\ entry_scope' = EntryScope(heap, quantization_config)
    /\ hpc' = "done"
    /\ runs' = runs + 1
    /\ UNCHANGED <<graph, resolverVars, classifierVars, quantizeVars, captureVars,
                   cachingVars>>

NextHybrid ==
    \/ HybridAddOp
    \/ HybridConfigureNoScope
    \/ HybridConfigureScope
    \/ HybridQuantization

SpecHybrid == InitHybrid /\ [][NextHybrid]_vars

\* Whether the pass called with `call` leaves operation op alone: its name or
\* its type is in the ignored scope handed to the engine.
IgnoredBy(call, g, op) ==
    \/ op \in Range(call.ignored_scope.names)
    \/ g[op].type \in Range(call.ignored_scope.types)

\* Whether the caller's ignored scope, as it was when the call began, lists
\* operation op by name or by type.
UserExcluded(g, op) ==
    /\ entry_scope.given
    /\ \/ /\ "names" \in DOMAIN entry_scope.scope
          /\ op \in Range(entry_scope.scope["names"])
       \/ /\ "types" \in DOMAIN entry_scope.scope
          /\ g[op].type \in Range(entry_scope.scope["types"])

(***************************************************************************)
(* C1.  After _hybrid_quantization, every operation of the weight-bearing  *)
(* set is not in the ignored scope handed to the weight-only pass unless   *)
(* the caller excluded it, and its name is in the ignored names handed to  *)
(* the full-quantization pass; every Convolution the caller did not        *)
(* exclude is ignored by the weight-only pass and not ignored by the       *)
(* full-quantization pass.                                                 *)
(***************************************************************************)
C1_HybridExclusivity ==
    hpc = "done" =>
        /\ \A op \in Range(collect_ops_with_weights(graph)) :
              /\ IgnoredBy(wc_call, graph, op) => UserExcluded(graph, op)
              /\ op \in Range(ptq_call.ignored_scope.names)
        /\ \A op \in 1..Len(graph) :
              (graph[op].type = "Convolution" /\ ~UserExcluded(graph, op)) =>
                  /\ IgnoredBy(wc_call, graph, op)
                  /\ ~IgnoredBy(ptq_call, graph, op)

(***************************************************************************)
(* C2.  When _hybrid_quantization has returned, the ignored scope of the   *)
(* caller's configuration (absent, or the names, patterns and types of its *)
(* dict) is what it was when the call began.                               *)
(***************************************************************************)
C2_CallerConfigUntouched ==
    hpc = "done" => EntryScope(heap, quantization_config) = entry_scope

(***************************************************************************)
(* OVQuantizer.quantize and its two dispatch paths.                        *)
(*                                                                         *)
(* A configuration object given as ov_config (or as the deprecated         *)
(* quantization_config keyword) is None, an OVConfig, or an object of      *)
(* another type, which Python's `or` tells apart by truth value ("falsy":  *)
(* an empty dict, "other": any other object).  An OVConfig carries a       *)
(* weight quantization configuration or none.                              *)
(***************************************************************************)
WeightConfig(bits, sym, profile) ==
    [given |-> TRUE,
     scope |-> IF profile = "tuned"
               THEN [keys |-> {"names"}, names |-> <<1>>, patterns |-> <<>>,
                     types |-> <<>>]
               ELSE [keys |-> {}, names |-> <<>>, patterns |-> <<>>, types |-> <<>>],
     has_scope |-> profile = "tuned",
     fields |->
        [bits |-> bits, sym |-> sym,
         ratio |-> IF profile = "tuned" THEN "0.8" ELSE "1.0",
         group_size |-> IF profile = "tuned" THEN "128" ELSE "-1",
         all_layers |-> IF profile = "tuned" THEN "True" ELSE "None",
         sensitivity_metric |->
             IF profile = "tuned" THEN "max_activation_variance" ELSE "None",
         ignored_scope |-> None, dataset |-> NoDataset, tokenizer |-> "None",
         num_samples |-> None]]

\* OVWeightQuantizationConfig(bits=8, sym=True): the other fields take the
\* defaults of the class.
DefaultWeightConfig ==
    [given |-> TRUE,
     scope |-> [keys |-> {}, names |-> <<>>, patterns |-> <<>>, types |-> <<>>],
     has_scope |-> FALSE,
     fields |->
        [bits |-> 8, sym |-> TRUE, ratio |-> "default", group_size |-> "default",
         all_layers |-> "default", sensitivity_metric |-> "None",
         ignored_scope |-> None, dataset |-> NoDataset, tokenizer |-> "None",
         num_samples |-> None]]

NoWeightConfig == [DefaultWeightConfig EXCEPT !.given = FALSE]

WeightConfigs ==
    {WeightConfig(b, sy, pr) : b \in {4, 8}, sy \in BOOLEAN, pr \in {"plain", "tuned"}}

ConfigArg(kind, qc) == [kind |-> kind, quantization_config |-> qc]

ConfigArgs ==
    {ConfigArg(k, NoWeightConfig) : k \in {"None", "falsy", "other", "OVConfig"}}
    \cup {ConfigArg("OVConfig", qc) : qc \in WeightConfigs}

\* The deprecated keyword is given less variety.
DeprecatedConfigArgs ==
    {ConfigArg(k, NoWeightConfig) : k \in {"None", "falsy", "other", "OVConfig"}}

Tasks ==
    {"text-generation", "text-classification", "text2text-generation",
     "image-to-text", "seq2seq-lm", "causal-lm"}

\* The quantizer (self.model, self.task) and the arguments of quantize.
QuantizeArgs ==
    [model : {"OVBaseModel", "torch.nn.Module", "other"},
     task : Tasks \cup {"None"},
     use_cache : BOOLEAN,
     export_feature : {"text-generation", "text-classification"},
     calibration_dataset : {"None", "dataset"},
     save_directory : {"None", "dir"},
     ov_config : ConfigArgs,
     weights_only : BOOLEAN,
     quantization_config : DeprecatedConfigArgs,
     model_type : {"absent", "custom"},
     fast_bias_correction : {"absent", "False"}]

Event(op, arg) == [op |-> op, arg |-> arg]
NoArg == [none |-> TRUE]

\* bool(x) of a configuration argument.
Truthy(cfg) == cfg.kind \in {"other", "OVConfig"}

\* 273-278: ov_config = ov_config or quantization_config
effective_ov_config(a) ==
    IF Truthy(a.ov_config) THEN a.ov_config ELSE a.quantization_config

\* A plausible slip: the calibration dataset is required in every mode.
validate_requiring_dataset(a) ==
    IF a.save_directory = "None" THEN "ValueError: save_directory"
    ELSE IF a.calibration_dataset = "None"
    THEN "ValueError: calibration_dataset"
    ELSE IF effective_ov_config(a).kind # "None"
            /\ effective_ov_config(a).kind # "OVConfig"
    THEN "TypeError: ov_config"
    ELSE "ok"

\* 259-282: the checks made before dispatch.
validate(a) ==
    IF a.save_directory = "None" THEN "ValueError: save_directory"
    ELSE IF ~a.weights_only /\ a.calibration_dataset = "None"
    THEN "ValueError: calibration_dataset"
    ELSE IF effective_ov_config(a).kind # "None"
            /\ effective_ov_config(a).kind # "OVConfig"
    THEN "TypeError: ov_config"
    ELSE "ok"

\* 328-330: q_config = getattr(ov_config, "quantization_config", None) or the
\* 8-bit symmetric default.
ov_weight_config(a) ==
    LET ov_config == effective_ov_config(a)
        q_config == IF ov_config.kind = "OVConfig"
                    THEN ov_config.quantization_config ELSE NoWeightConfig
    IN  IF q_config.given THEN q_config ELSE DefaultWeightConfig

\* The objects of a weight quantization configuration, the configuration at
\* reference 1.
WeightConfigHeap(qc) ==
    IF qc.has_scope THEN UserHeap(qc.scope, qc.fields) ELSE <<ConfigObj(qc.fields)>>

\* The keyword arguments quantize hands on (quantization_config is popped).
Kwargs(a) ==
    {k \in {"model_type", "fast_bias_correction"} : a[k] # "absent"}

\* 360-366 and 444-450: nncf.quantize(model, dataset, model_type=...,
\* fast_bias_correction=..., **kwargs); a keyword given twice is a TypeError.
quantize_call(kwargs, a, dataset) ==
    IF kwargs \cap {"model_type", "fast_bias_correction"} # {}
    THEN [error |-> "TypeError: multiple values for keyword argument",
          event |-> Event("nncf.quantize", NoArg)]
    ELSE [error |-> "none",
          event |-> Event("nncf.quantize",
              [model_type |-> IF "model_type" \notin kwargs
                              THEN "transformer" ELSE a.model_type,
               fast_bias_correction |-> IF "fast_bias_correction" \in kwargs
                                        THEN a.fast_bias_correction ELSE "True",
               dataset |-> dataset])]

\* _TASK_ALIASES.get(task, task)
TaskAlias(task) ==
    CASE task = "seq2seq-lm" -> "text2text-generation"
      [] task = "causal-lm" -> "text-generation"
      [] OTHER -> task

\* A plausible slip: the image-to-text check is missing.
set_task_without_image_check(task, inferred) ==
    LET given == IF task = "None" THEN inferred ELSE task
        resolved == TaskAlias(given)
    IN  IF given = "None" THEN [task |-> "None", error |-> "ValueError: task"]
        ELSE IF resolved = "text2text-generation"
        THEN [task |-> resolved, error |-> "ValueError: Seq2Seq"]
        ELSE [task |-> resolved, error |-> "none"]

\* 480-494: _set_task; inferred is what TasksManager.infer_task_from_model
\* answers when self.task is None.
set_task(task, inferred) ==
    LET given == IF task = "None" THEN inferred ELSE task
        resolved == TaskAlias(given)
    IN  IF given = "None" THEN [task |-> "None", error |-> "ValueError: task"]
        ELSE IF resolved = "text2text-generation"
        THEN [task |-> resolved, error |-> "ValueError: Seq2Seq"]
        ELSE IF resolved = "image-to-text"
        THEN [task |-> resolved, error |-> "ValueError: Image2Text"]
        ELSE [task |-> resolved, error |-> "none"]

\* A plausible slip: the stateful optimization is kept for full quantization.
full_quantization_stateful_kept(stateful) == stateful

\* 429-434: full quantization gives up the stateful optimization.
full_quantization_stateful(stateful) == FALSE

\* 427: nncf.compress_weights(model, dataset=nncf.Dataset([dummy_inputs])):
\* every other parameter is left to the engine's default.
torch_compress_weights_call ==
    [called |-> TRUE, mode |-> "engine default", ratio |-> "engine default",
     group_size |-> "engine default", all_layers |-> "engine default",
     sensitivity_metric |-> "engine default", ignored_scope |-> NoScope,
     dataset |-> [kind |-> "dummy_inputs", name |-> "", nsamples |-> 1]]

DefaultSubsetSize == 300

Raise(error) ==
    /\ outcome' = error
    /\ qpc' = "raised"

Return ==
    /\ outcome' = "returned"
    /\ qpc' = "done"

InitQuantize ==
    /\ graph = <<>>
    /\ ResolverIdle
    /\ ClassifierIdle
    /\ HybridIdle
    /\ QuantizeIdle
    /\ CaptureIdle
    /\ CachingIdle

otherVars ==
    <<graph, resolverVars, classifierVars, hybridVars, captureVars, cachingVars>>

\* A caller calls quantizer.quantize(...).
QuantizeCall ==
    /\ qpc = "idle"
    /\ args' \in QuantizeArgs
    /\ self_task' = args'.task
    /\ qpc' = "quantize"
    /\ UNCHANGED <<events, outcome, locals, otherVars>>

\* 259-311: validation and dispatch.
Quantize ==
    /\ qpc = "quantize"
    /\ IF validate(args) # "ok" THEN Raise(validate(args))
       ELSE IF args.model = "OVBaseModel"
       THEN qpc' = "_quantize_ovbasemodel" /\ UNCHANGED outcome
       ELSE IF args.model = "torch.nn.Module"
       THEN qpc' = "_quantize_torchmodel" /\ UNCHANGED outcome
       ELSE Raise("TypeError: Unsupported model type")
    /\ UNCHANGED <<args, self_task, events, locals, otherVars>>

\* 324-334: _quantize_ovbasemodel with weights_only.
OVWeightsOnly ==
    /\ qpc = "_quantize_ovbasemodel"
    /\ args.weights_only
    /\ LET q_config == ov_weight_config(args)
       IN  events' = events \o
               <<Event("mkdir", NoArg),
                 Event("nncf.compress_weights",
                       weight_only_quantization(WeightConfigHeap(q_config), 1)),
                 Event("model.save_pretrained", NoArg)>>
    /\ Return
    /\ UNCHANGED <<args, self_task, locals, otherVars>>

\* 324-343: _quantize_ovbasemodel without weights_only, up to the dataloader.
OVPrepare ==
    /\ qpc = "_quantize_ovbasemodel"
    /\ ~args.weights_only
    /\ events' = events \o
           <<Event("mkdir", NoArg),
             Event("DataLoader", [dataset |-> args.calibration_dataset])>>
    /\ locals' = [locals EXCEPT !.calibration = "calibration_dataloader"]
    /\ qpc' = IF args.export_feature = "text-generation" /\ args.use_cache
              THEN "capture" ELSE "nncf.quantize"
    /\ UNCHANGED <<args, self_task, outcome, otherVars>>

\* 344-356: the inputs of the generation calls are collected; the dataloader
\* has n batches, fewer than subset_size.
OVCapture ==
    /\ qpc = "capture"
    /\ \E n \in 1..MaxBatches :
          /\ n < DefaultSubsetSize
          /\ events' = events \o
                 <<Event("model.update_pkv_precision", NoArg),
                   Event("model.compile", NoArg),
                   Event("InferRequestWrapper", NoArg),
                   Event("model.generate", [calls |-> n]),
                   Event("model.request = request.request", NoArg)>>
    /\ locals' = [locals EXCEPT !.calibration = "collected_inputs"]
    /\ qpc' = "nncf.quantize"
    /\ UNCHANGED <<args, self_task, outcome, otherVars>>

\* 358-368: the quantization itself and the save.
OVQuantize ==
    /\ qpc = "nncf.quantize"
    /\ LET call == quantize_call(Kwargs(args), args, locals.calibration)
       IN  IF call.error # "none"
           THEN Raise(call.error) /\ UNCHANGED events
           ELSE /\ events' = events \o
                       <<call.event, Event("model.save_pretrained", NoArg)>>
                /\ Return
    /\ UNCHANGED <<args, self_task, locals, otherVars>>

\* 382: self._set_task().
TorchSetTask ==
    /\ qpc = "_quantize_torchmodel"
    /\ \E inferred \in Tasks \cup {"None"} :
          LET r == set_task(self_task, inferred)
          IN  /\ self_task' = r.task
              /\ IF r.error # "none" THEN Raise(r.error)
                 ELSE qpc' = "torch_prepare" /\ UNCHANGED outcome
    /\ UNCHANGED <<args, events, locals, otherVars>>

\* 383-413: the save directory, the export configuration, whether the
\* stateful optimization applies (what ensure_stateful_is_available and
\* ensure_export_task_support_stateful answer).
TorchPrepare ==
    /\ qpc = "torch_prepare"
    /\ events' = events \o
           <<Event("mkdir", NoArg), Event("model.config.save_pretrained", NoArg)>>
    /\ \E stateful_is_available \in BOOLEAN, task_support_stateful \in BOOLEAN :
          locals' = [locals EXCEPT
              !.task = IF self_task = "text-generation" /\ args.use_cache
                       THEN "text-generation-with-past" ELSE self_task,
              !.stateful_is_available = stateful_is_available,
              !.task_support_stateful = task_support_stateful,
              !.stateful = stateful_is_available /\ task_support_stateful]
    /\ qpc' = "torch_transform"
    /\ UNCHANGED <<args, self_task, outcome, otherVars>>

\* 415-427: weights_only on a torch model.
TorchCompressWeights ==
    /\ qpc = "torch_transform"
    /\ args.weights_only
    /\ events' = events
           \o (IF locals.stateful
               THEN <<Event("patch_model_with_bettertransformer", NoArg)>>
               ELSE <<>>)
           \o <<Event("nncf.compress_weights", torch_compress_weights_call)>>
    /\ qpc' = "export"
    /\ UNCHANGED <<args, self_task, outcome, locals, otherVars>>

\* 428-450: full quantization of a torch model; quantize hands no keyword
\* argument on to _quantize_torchmodel.
TorchQuantize ==
    /\ qpc = "torch_transform"
    /\ ~args.weights_only
    /\ LET call == quantize_call({}, args, "calibration_dataloader")
       IN  events' = events \o
               <<Event("DataLoader", [dataset |-> args.calibration_dataset]),
                 call.event>>
    /\ locals' = [locals EXCEPT
           !.stateful = full_quantization_stateful(locals.stateful),
           !.calibration = "calibration_dataloader"]
    /\ qpc' = "export"
    /\ UNCHANGED <<args, self_task, outcome, otherVars>>

\* 452-461: the export; is_onnx tells that it fell back to ONNX.
TorchExport ==
    /\ qpc = "export"
    /\ \E is_onnx \in BOOLEAN :
          /\ locals' = [locals EXCEPT !.is_onnx = is_onnx]
          /\ IF is_onnx THEN qpc' = "reload" /\ UNCHANGED outcome ELSE Return
    /\ events' = Append(events, Event("export", [stateful |-> locals.stateful]))
    /\ UNCHANGED <<args, self_task, otherVars>>

RemoveResults == {"removed", "FileNotFoundError", "PermissionError"}

\* A plausible slip: the model is saved without the compaction pass.
save_pretrained_without_compaction ==
    <<Event("openvino.save_model", NoArg)>>

\* 475-478: _save_pretrained.
save_pretrained ==
    <<Event("compress_quantize_weights_transformation", NoArg),
      Event("openvino.save_model", NoArg)>>

\* A plausible slip: the removal of the external-data file is not guarded.
cleanup_unguarded(onnx, onnx_data) ==
    LET first == <<Event("os.remove", [file |-> "onnx_path", result |-> onnx])>>
        second == Append(first, Event("os.remove",
                      [file |-> "onnx_path_data", result |-> onnx_data]))
    IN  IF onnx # "removed" THEN [events |-> first, error |-> onnx]
        ELSE IF onnx_data # "removed" THEN [events |-> second, error |-> onnx_data]
        ELSE [events |-> second, error |-> "none"]

\* 468-473: os.remove(onnx_path), then os.remove of the external-data file
\* inside try ... except FileNotFoundError: pass; onnx and onnx_data are what
\* the two removals answer.
cleanup(onnx, onnx_data) ==
    LET first == <<Event("os.remove", [file |-> "onnx_path", result |-> onnx])>>
        second == Append(first, Event("os.remove",
                      [file |-> "onnx_path_data", result |-> onnx_data]))
    IN  IF onnx # "removed" THEN [events |-> first, error |-> onnx]
        ELSE IF onnx_data \notin {"removed", "FileNotFoundError"}
        THEN [events |-> second, error |-> onnx_data]
        ELSE [events |-> second, error |-> "none"]

\* 462-473: after a fallback to ONNX the model is read back, saved through
\* _save_pretrained and the ONNX files are removed (quantize never sets
\* save_onnx_model).
TorchReload ==
    /\ qpc = "reload"
    /\ \E onnx \in RemoveResults, onnx_data \in RemoveResults :
          LET removal == cleanup(onnx, onnx_data)
          IN  /\ events' = events \o <<Event("core.read_model", NoArg)>>
                               \o save_pretrained \o removal.events
              /\ IF removal.error # "none" THEN Raise(removal.error) ELSE Return
    /\ UNCHANGED <<args, self_task, locals, otherVars>>

Next ==
    \/ QuantizeCall
    \/ Quantize
    \/ OVWeightsOnly
    \/ OVPrepare
    \/ OVCapture
    \/ OVQuantize
    \/ TorchSetTask
    \/ TorchPrepare
    \/ TorchCompressWeights
    \/ TorchQuantize
    \/ TorchExport
    \/ TorchReload

Spec == InitQuantize /\ [][Next]_vars

(***************************************************************************)
(* InferRequestWrapper.  An input of an inference call is a dict of        *)
(* tensors, given by its keys in insertion order and the values in the     *)
(* same order, or an object of another type; a tensor is its bytes, its    *)
(* shape and its element type.                                             *)
(***************************************************************************)
Tensor(bytes, shape, dtype) == [bytes |-> bytes, shape |-> shape, dtype |-> dtype]
DictInputs(keys, values) == [kind |-> "dict", keys |-> keys, values |-> values]
OtherInputs(value) == [kind |-> "list", keys |-> <<>>, values |-> <<value>>]

\* hash(data.tobytes()): the bytes alone; distinct bytes of the model get
\* distinct hashes.
data_hash(v) == v.bytes

CacheHas(tensor_cache, h) == \E i \in DOMAIN tensor_cache : tensor_cache[i].hash = h
CacheGet(tensor_cache, h) ==
    tensor_cache[CHOOSE i \in DOMAIN tensor_cache : tensor_cache[i].hash = h].value

\* 116-128: the loop over inputs.items() from the i-th item on.
RECURSIVE collect_cached(_, _, _, _)
collect_cached(tensor_cache, inputs, i, copied) ==
    IF i > Len(inputs.keys)
    THEN [tensor_cache |-> tensor_cache,
          copied_inputs |-> DictInputs(inputs.keys, copied)]
    ELSE LET v == inputs.values[i]
             h == data_hash(v)
             cache == IF ~CacheHas(tensor_cache, h)
                      THEN Append(tensor_cache, [hash |-> h, value |-> v])
                      ELSE tensor_cache
         IN  collect_cached(cache, inputs, i + 1, Append(copied, CacheGet(cache, h)))

\* 111-129: collect_inputs; copy.deepcopy gives an equal value.
collect_inputs(w, inputs) ==
    IF ~w.apply_caching \/ inputs.kind # "dict"
    THEN [w EXCEPT !.collected_inputs = Append(@, inputs)]
    ELSE LET r == collect_cached(w.tensor_cache, inputs, 1, <<>>)
         IN  [w EXCEPT !.tensor_cache = r.tensor_cache,
                       !.collected_inputs = Append(@, r.copied_inputs)]

(***************************************************************************)
(* The same inputs given to a wrapper with apply_caching=True and to one   *)
(* with apply_caching=False.                                               *)
(***************************************************************************)
Layouts == {<<"1x2", "i64">>, <<"2x1", "i64">>, <<"1x2", "f64">>}
Tensors == {Tensor(b, l[1], l[2]) : b \in {0, 1}, l \in Layouts}

CachingInputs ==
    {DictInputs(<<"input_ids">>, <<t>>) : t \in Tensors}
    \cup {DictInputs(<<"input_ids", "attention_mask">>, <<t, u>>) :
              t \in Tensors, u \in Tensors}
    \cup {OtherInputs(Tensor(0, "1x2", "i64"))}

InitCaching ==
    /\ graph = <<>>
    /\ ResolverIdle
    /\ ClassifierIdle
    /\ HybridIdle
    /\ QuantizeIdle
    /\ CaptureIdle
    /\ CachingIdle

\* wrapper.infer(inputs) on both wrappers.
CollectBoth ==
    /\ Len(plain.collected_inputs) < MaxCalls
    /\ \E inputs \in CachingInputs :
          /\ cached' = collect_inputs(cached, inputs)
          /\ plain' = collect_inputs(plain, inputs)
    /\ UNCHANGED <<graph, resolverVars, classifierVars, hybridVars, quantizeVars,
                   captureVars>>

NextCaching == CollectBoth

SpecCaching == InitCaching /\ [][NextCaching]_vars

(***************************************************************************)
(* The capture phase of _quantize_ovbasemodel (343-356) and the calls the  *)
(* generation makes through the wrapper.  request is the chain of wrappers *)
(* around the original request, the outermost last; model.request is the   *)
(* outermost wrapper, the original request when the chain is empty.        *)
(***************************************************************************)
\* A plausible slip: the loop goes on until the budget is exceeded.
budget_exceeded(collected_inputs, subset_size) == Len(collected_inputs) > subset_size

\* 353: len(collected_inputs) >= subset_size
budget_reached(collected_inputs, subset_size) == Len(collected_inputs) >= subset_size

SubsetSizes == {0, 1, 2, DefaultSubsetSize}

\* The inputs of the call-th inference call of a capture phase.
CaptureInputs(call) == DictInputs(<<"input_ids">>, <<Tensor(call, "1x2", "i64")>>)

\* model.request, as the wrapper it is.
Outermost == request[Len(request)]

InitCapture ==
    /\ graph = <<>>
    /\ ResolverIdle
    /\ ClassifierIdle
    /\ HybridIdle
    /\ QuantizeIdle
    /\ CaptureIdle
    /\ CachingIdle

nonCaptureVars ==
    <<graph, resolverVars, classifierVars, hybridVars, quantizeVars, cachingVars>>

\* 343-350: a quantize call enters the capture phase over a dataloader of
\* `batches` batches and wraps model.request.
CaptureStart ==
    /\ kpc \in {"idle", "left", "raised"}
    /\ phases < MaxRuns
    /\ \E batches \in 1..MaxBatches, subset_size \in SubsetSizes :
          capture' = [NoCapture EXCEPT !.batches = batches,
                                       !.subset_size = subset_size]
    /\ request' = Append(request, InferRequestWrapper(FALSE))
    /\ phases' = phases + 1
    /\ late' = FALSE
    /\ kpc' = "loop"
    /\ UNCHANGED nonCaptureVars

\* 351-352: the next batch is taken and self.model.generate is called; it
\* raises, or it goes on to make `calls` inference calls.
Generate ==
    /\ kpc = "loop"
    /\ capture.batch < capture.batches
    /\ \/ /\ kpc' = "raised"
          /\ UNCHANGED capture
       \/ \E calls \in 1..MaxInfer :
             /\ capture' = [capture EXCEPT
                    !.batch = @ + 1,
                    !.remaining = calls,
                    !.at_start = Len(Outermost.collected_inputs),
                    !.single = @ /\ calls = 1]
             /\ kpc' = "generate"
    /\ UNCHANGED <<request, phases, late, nonCaptureVars>>

\* An inference call reaches wrapper i of the chain: it is collected and
\* handed on, down to the original request.
CallThrough(chain, inputs) ==
    [i \in DOMAIN chain |->
        [collect_inputs(chain[i], inputs) EXCEPT
            !.calls = @ + 1,
            !.forwarded = Append(@, inputs)]]

\* 130-151, first half: generate calls model.request, by __call__, infer
\* or start_async; the wrapper collects the inputs.  __call__ reads the
\* inputs from the bound arguments and raises KeyError when the call passes
\* none.
WrapperCollect ==
    /\ kpc = "generate"
    /\ capture.remaining > 0
    /\ ~capture.pending
    /\ \E method \in {"__call__", "infer", "start_async"}, given \in BOOLEAN :
          LET top == Len(request)
              inputs == CaptureInputs(Outermost.calls + 1)
          IN  IF method = "__call__" /\ ~given
              THEN /\ request' = [request EXCEPT ![top].calls = @ + 1,
                                                 ![top].unbound = @ + 1]
                   /\ kpc' = "raised"
                   /\ UNCHANGED capture
              ELSE /\ request' = [request EXCEPT
                          ![top] = [collect_inputs(@, inputs) EXCEPT !.calls = @ + 1]]
                   /\ capture' = [capture EXCEPT !.pending = TRUE]
                   /\ UNCHANGED kpc
    /\ UNCHANGED <<phases, late, nonCaptureVars>>

\* 130-151, second half: the wrapper hands the call to the request it wraps,
\* through the wrappers an earlier phase left in place.
WrapperForward ==
    /\ kpc = "generate"
    /\ capture.pending
    /\ LET top == Len(request)
           inputs == Outermost.collected_inputs[Len(Outermost.collected_inputs)]
       IN  request' =
               CallThrough(SubSeq(request, 1, top - 1), inputs)
               \o <<[Outermost EXCEPT !.forwarded = Append(@, inputs)]>>
    /\ capture' = [capture EXCEPT !.pending = FALSE, !.remaining = @ - 1]
    /\ UNCHANGED <<kpc, phases, late, nonCaptureVars>>

\* 353-354: generate has returned; the loop is left once the budget is
\* reached.
GenerateReturn ==
    /\ kpc = "generate"
    /\ capture.remaining = 0
    /\ kpc' = IF budget_reached(Outermost.collected_inputs, capture.subset_size)
              THEN "unwrap" ELSE "loop"
    /\ UNCHANGED <<request, capture, phases, late, nonCaptureVars>>

\* 351: the dataloader is exhausted.
LoopExhausted ==
    /\ kpc = "loop"
    /\ capture.batch = capture.batches
    /\ kpc' = "unwrap"
    /\ UNCHANGED <<request, capture, phases, late, nonCaptureVars>>

\* 355-356: self.model.request = self.model.request.request
Unwrap ==
    /\ kpc = "unwrap"
    /\ request' = SubSeq(request, 1, Len(request) - 1)
    /\ kpc' = "left"
    /\ UNCHANGED <<capture, phases, late, nonCaptureVars>>

\* An inference on the model once the capture phase is over.
LaterInference ==
    /\ kpc \in {"left", "raised"}
    /\ ~late
    /\ late' = TRUE
    /\ request' = CallThrough(request, CaptureInputs(0))
    /\ UNCHANGED <<capture, kpc, phases, nonCaptureVars>>

NextCapture ==
    \/ CaptureStart
    \/ Generate
    \/ WrapperCollect
    \/ WrapperForward
    \/ GenerateReturn
    \/ LoopExhausted
    \/ Unwrap
    \/ LaterInference

SpecCapture == InitCapture /\ [][NextCapture]_vars

(***************************************************************************)
(* Properties of quantize.                                                 *)
(***************************************************************************)
Finished == qpc \in {"done", "raised"}
EventsOf(op) == {i \in DOMAIN events : events[i].op = op}
Errors ==
    {"ValueError: save_directory", "ValueError: calibration_dataset",
     "TypeError: ov_config", "TypeError: Unsupported model type",
     "TypeError: multiple values for keyword argument", "ValueError: task",
     "ValueError: Seq2Seq", "ValueError: Image2Text", "FileNotFoundError",
     "PermissionError"}

\* The weight quantization configuration the caller supplied, the 8-bit
\* symmetric default when the caller supplied none.
SuppliedWeightConfig(a) ==
    LET given == {c \in {a.ov_config, a.quantization_config} :
                     c.kind = "OVConfig" /\ c.quantization_config.given}
    IN  IF a.ov_config \in given THEN a.ov_config.quantization_config
        ELSE IF a.quantization_config \in given
        THEN a.quantization_config.quantization_config
        ELSE DefaultWeightConfig

\* Whether the caller supplied a weight quantization configuration.
WeightConfigSupplied(a) ==
    \E c \in {a.ov_config, a.quantization_config} :
        c.kind = "OVConfig" /\ c.quantization_config.given

\* A parameter of the engine call agrees with the configuration: it has the
\* configuration's value, or it is left to the engine while the caller
\* supplied no configuration.
Agrees(a, value, configured) ==
    \/ value = configured
    \/ value = "engine default" /\ ~WeightConfigSupplied(a)

\* C3: in weight-only mode, on both dispatch paths, the weight-compression
\* transform is invoked with the bit-width and symmetry (as the mode), the
\* ratio, the group size, the sensitivity metric and the ignored scope of the
\* configuration the caller supplied, and with the 8-bit symmetric default
\* only when the caller supplied none.
C3_CompressionFollowsConfig ==
    \A i \in EventsOf("nncf.compress_weights") :
        LET call == events[i].arg
            qc == SuppliedWeightConfig(args)
        IN  args.weights_only =>
               /\ Agrees(args, call.mode,
                         CompressWeightsModeOf(qc.fields.bits, qc.fields.sym))
               /\ Agrees(args, call.ratio, qc.fields.ratio)
               /\ Agrees(args, call.group_size, qc.fields.group_size)
               /\ Agrees(args, call.sensitivity_metric,
                         SensitivityMetricOf(qc.fields.sensitivity_metric))
               /\ call.ignored_scope.given = qc.has_scope
               /\ call.ignored_scope.names = qc.scope.names

\* C4: in full-quantization mode a call that passes validation and reaches
\* the engine invokes it exactly once, with architecture type "transformer"
\* and bias correction enabled when the caller gives no override and with
\* the caller's value when model_type or fast_bias_correction is among the
\* keyword arguments, and the engine call does not raise.
C4_EngineArguments ==
    (/\ Finished
     /\ ~args.weights_only
     /\ validate(args) = "ok"
     /\ args.model \in {"OVBaseModel", "torch.nn.Module"}
     /\ outcome \notin {"ValueError: task", "ValueError: Seq2Seq",
                        "ValueError: Image2Text"})
    => /\ outcome # "TypeError: multiple values for keyword argument"
       /\ Cardinality(EventsOf("nncf.quantize")) = 1
       /\ \A i \in EventsOf("nncf.quantize") :
             /\ events[i].arg.model_type =
                    (IF args.model_type = "absent"
                     THEN "transformer" ELSE args.model_type)
             /\ events[i].arg.fast_bias_correction =
                    (IF args.fast_bias_correction = "absent"
                     THEN "True" ELSE args.fast_bias_correction)

\* What validate-first asks of the arguments: a save directory, a
\* calibration dataset unless weights_only, and no supplied configuration
\* object (ov_config or the deprecated quantization_config) of another type
\* than OVConfig.
UsageError(a) ==
    \/ a.save_directory = "None"
    \/ ~a.weights_only /\ a.calibration_dataset = "None"
    \/ a.ov_config.kind \in {"falsy", "other"}
    \/ a.ov_config.kind = "None" /\ a.quantization_config.kind \in {"falsy", "other"}

\* C5: a quantize call with no save_directory, or with weights_only=False
\* and no calibration dataset, or with a supplied configuration object that
\* is not an OVConfig, raises an error before any side effect: nothing is
\* created or written, no export, compression or quantization is invoked.
C5_ValidateFirst ==
    (qpc # "idle" /\ UsageError(args))
    => /\ events = <<>>
       /\ Finished => outcome \in Errors

RejectedTasks == {"text2text-generation", "image-to-text"}

\* C6 as claimed: for every model representation a task that resolves to
\* text2text-generation or image-to-text ends in an error with no export
\* and nothing created under save_directory.
C6_AsClaimed ==
    (qpc # "idle" /\ TaskAlias(args.task) \in RejectedTasks)
    => /\ EventsOf("export") = {}
       /\ EventsOf("mkdir") = {}
       /\ Finished => outcome \in Errors

\* C6: on the export path (a torch.nn.Module model), for both weights_only
\* values, a task that resolves to text2text-generation or image-to-text,
\* given directly, through a task alias or by task inference, ends in an
\* error, and nothing has been created, written, transformed or exported
\* when it is raised.
C6_ExportPathRejectsTask ==
    (/\ qpc # "idle"
     /\ args.model = "torch.nn.Module"
     /\ \/ TaskAlias(args.task) \in RejectedTasks
        \/ self_task \in RejectedTasks)
    => /\ events = <<>>
       /\ qpc \notin {"torch_prepare", "torch_transform", "export", "reload"}
       /\ Finished => outcome \in Errors
       /\ (Finished /\ validate(args) = "ok")
              => outcome \in {"ValueError: Seq2Seq", "ValueError: Image2Text"}

C6_Witness ==
    /\ qpc = "raised"
    /\ args.model = "torch.nn.Module"
    /\ args.task = "image-to-text"
    /\ args.weights_only
    /\ outcome = "ValueError: Image2Text"
    /\ events = <<>>

\* The calibration dataset an event consults, "None" when it consults none.
ConsultedDataset(e) ==
    CASE e.op = "DataLoader" -> e.arg.dataset
      [] e.op = "nncf.quantize" -> e.arg.dataset
      [] e.op = "model.generate" -> "calibration_dataloader"
      [] e.op = "nncf.compress_weights" ->
             (IF e.arg.dataset.kind = "calibration_dataset"
              THEN "dataset" ELSE "None")
      [] OTHER -> "None"

WithCalibration(a, d) == [a EXCEPT !.calibration_dataset = d]

\* C7: with weights_only=True, on both dispatch paths, quantize never fails
\* for a missing calibration dataset, no step wraps a calibration dataset in
\* a dataloader, iterates it or passes it to an engine, and what decides the
\* steps (the validation, the weight configuration) is the same with and
\* without the dataset; a call that is otherwise valid on a runtime model
\* returns.
C7_WeightsOnlyIgnoresDataset ==
    (qpc # "idle" /\ args.weights_only)
    => /\ outcome # "ValueError: calibration_dataset"
       /\ \A i \in DOMAIN events : ConsultedDataset(events[i]) = "None"
       /\ \A d \in {"None", "dataset"} :
             /\ validate(WithCalibration(args, d)) = validate(args)
             /\ ov_weight_config(WithCalibration(args, d)) = ov_weight_config(args)
       /\ (/\ Finished
           /\ args.model = "OVBaseModel"
           /\ args.save_directory # "None"
           /\ effective_ov_config(args).kind \in {"None", "OVConfig"})
              => /\ outcome = "returned"
                 /\ Cardinality(EventsOf("nncf.compress_weights")) = 1

C7_Witness ==
    /\ qpc = "done"
    /\ outcome = "returned"
    /\ args.weights_only
    /\ args.model = "torch.nn.Module"
    /\ args.calibration_dataset = "dataset"
    /\ Cardinality(EventsOf("nncf.compress_weights")) = 1
    /\ EventsOf("export") # {}

\* C10: on the export path with weights_only=False the export is invoked
\* with stateful=false and the model is not patched, whatever the task and
\* the availability of the stateful optimization; with weights_only=True the
\* export is invoked with stateful=true exactly when the optimization is
\* available and the task supports it, and the model is patched exactly
\* then.
C10_StatefulOnlyForWeights ==
    (args.model = "torch.nn.Module" /\ qpc \in {"export", "reload", "done", "raised"})
    => /\ \A i \in EventsOf("export") :
             events[i].arg.stateful =
                 (/\ args.weights_only
                  /\ locals.stateful_is_available
                  /\ locals.task_support_stateful)
       /\ ~args.weights_only => EventsOf("patch_model_with_bettertransformer") = {}
       /\ (args.weights_only /\ qpc \in {"export", "reload", "done"})
              => (EventsOf("patch_model_with_bettertransformer") # {}
                    <=> (locals.stateful_is_available /\ locals.task_support_stateful))

C10_Witness ==
    /\ args.model = "torch.nn.Module"
    /\ ~args.weights_only
    /\ locals.stateful_is_available
    /\ locals.task_support_stateful
    /\ \E i \in EventsOf("export") : ~events[i].arg.stateful

\* The positions in the event log of the two quantization transforms.
TransformEvents == EventsOf("nncf.compress_weights") \cup EventsOf("nncf.quantize")
Once(op) == Cardinality(EventsOf(op)) = 1
Before(I, J) == \A i \in I, j \in J : i < j
ExportRunSucceeded ==
    qpc = "done" /\ outcome = "returned" /\ args.model = "torch.nn.Module"

\* C11 as claimed: every successful export-path run exports first, then
\* transforms, then runs the compaction pass, then serializes, and the
\* compaction pass runs on every successful run.
C11_AsClaimed ==
    ExportRunSucceeded
    => /\ Before(EventsOf("export"), TransformEvents)
       /\ Before(TransformEvents, EventsOf("compress_quantize_weights_transformation"))
       /\ EventsOf("compress_quantize_weights_transformation") # {}
       /\ Before(EventsOf("compress_quantize_weights_transformation"),
                 EventsOf("openvino.save_model"))

\* C11: every successful export-path run applies exactly one quantization
\* transform (weight compression or full quantization) to the trainable
\* model, then exports once; when the export fell back to the interchange
\* format the exported model is then read back, compacted and saved, each
\* once and in that order, and otherwise the export is the last step and no
\* compaction pass runs.
C11_TransformThenExport ==
    ExportRunSucceeded
    => /\ Cardinality(TransformEvents) = 1
       /\ Once("export")
       /\ Before(TransformEvents, EventsOf("export"))
       /\ locals.is_onnx =>
             /\ Once("core.read_model")
             /\ Once("compress_quantize_weights_transformation")
             /\ Once("openvino.save_model")
             /\ Before(EventsOf("export"), EventsOf("core.read_model"))
             /\ Before(EventsOf("core.read_model"),
                       EventsOf("compress_quantize_weights_transformation"))
             /\ Before(EventsOf("compress_quantize_weights_transformation"),
                       EventsOf("openvino.save_model"))
       /\ ~locals.is_onnx =>
             /\ EventsOf("compress_quantize_weights_transformation") = {}
             /\ EventsOf("openvino.save_model") = {}
             /\ events[Len(events)].op = "export"

C11_Witness ==
    /\ ExportRunSucceeded
    /\ locals.is_onnx
    /\ ~args.weights_only
    /\ Before(EventsOf("nncf.quantize"), EventsOf("export"))
    /\ Once("compress_quantize_weights_transformation")

\* The answers of the removals of the interchange model file and of its
\* external-data file, "none" for a removal that was not attempted.
RemovalResult(file) ==
    LET I == {i \in EventsOf("os.remove") : events[i].arg.file = file}
    IN  IF I = {} THEN "none" ELSE events[CHOOSE i \in I : TRUE].arg.result

CleanupDone == Finished /\ EventsOf("os.remove") # {}

\* C12 as claimed: for each temporary file the cleanup deletes, an already
\* absent file is swallowed and the call ends in success; every other
\* deletion failure propagates.
C12_AsClaimed ==
    CleanupDone
    => /\ (/\ RemovalResult("onnx_path") \in {"removed", "FileNotFoundError"}
           /\ RemovalResult("onnx_path_data") \in {"removed", "FileNotFoundError", "none"})
              => outcome = "returned"
       /\ RemovalResult("onnx_path") = "PermissionError" => outcome = "PermissionError"
       /\ RemovalResult("onnx_path_data") = "PermissionError"
              => outcome = "PermissionError"

\* C12: during cleanup after a fallback export only an already absent
\* external-data file is swallowed, and the call then ends in success; any
\* failure to delete the interchange model file, also its absence,
\* propagates before the external-data file is tried, and every other
\* failure to delete the external-data file propagates.
C12_CleanupFailures ==
    CleanupDone
    => /\ locals.is_onnx
       /\ RemovalResult("onnx_path") # "none"
       /\ RemovalResult("onnx_path") # "removed"
              => /\ outcome = RemovalResult("onnx_path")
                 /\ RemovalResult("onnx_path_data") = "none"
       /\ RemovalResult("onnx_path") = "removed"
              => /\ RemovalResult("onnx_path_data") # "none"
                 /\ RemovalResult("onnx_path_data") \in {"removed", "FileNotFoundError"}
                        => outcome = "returned"
                 /\ RemovalResult("onnx_path_data") = "PermissionError"
                        => outcome = "PermissionError"

C12_Witness ==
    /\ qpc = "done"
    /\ outcome = "returned"
    /\ RemovalResult("onnx_path") = "removed"
    /\ RemovalResult("onnx_path_data") = "FileNotFoundError"

(***************************************************************************)
(* Termination of the resolver.                                            *)
(***************************************************************************)
NoRepeat(seq) == \A i, j \in DOMAIN seq : seq[i] = seq[j] => i = j

\* C13: on every finite acyclic graph, for every operation and valid port,
\* the resolver returns, with or without a reachable constant: while it is in
\* its loop an iteration can be taken, every iteration takes one more node
\* from the queue and stays in the loop or returns, and the nodes taken are
\* pairwise distinct nodes of the graph other than the operation itself, so
\* that the loop is left after at most as many iterations as the graph has
\* nodes and no node is visited twice.
C13_ResolverTerminates ==
    /\ [](/\ Len(visited) <= Len(graph)
          /\ NoRepeat(visited)
          /\ \A i \in DOMAIN visited : visited[i] \in 1..(Len(graph) - 1)
          /\ rpc = "loop" => (Len(queue) > 0 /\ Len(visited) < Len(graph) - 1)
          /\ rpc = "loop" => Head(queue) \notin Range(visited))
    /\ [][rpc = "loop" => /\ Len(visited') = Len(visited) + 1
                          /\ rpc' \in {"loop", "returned"}
                          /\ graph' = graph]_vars

\* A Parameter behind two transparent operations: no constant is reachable
\* and the three nodes of the chain have been visited once each.
C13_Witness ==
    /\ rpc = "returned"
    /\ constant_node = None
    /\ Len(graph) = 4
    /\ graph[1].type = "Parameter"
    /\ visited = <<3, 2, 1>>

(***************************************************************************)
(* Properties of the capture phase and of the wrapper.                     *)
(***************************************************************************)
\* The capture phase is running or has just been left, and the outermost
\* wrapper is the one the phase installed.
InCapture == kpc \in {"loop", "generate", "unwrap", "raised"} /\ ~late
Records == Outermost.collected_inputs
InCallOrder == \A i \in DOMAIN Records : Records[i] = CaptureInputs(i)
ForwardedAfterRecord ==
    Outermost.forwarded =
        SubSeq(Records, 1, Len(Records) - (IF capture.pending THEN 1 ELSE 0))
WithinBudget ==
    /\ (kpc = "generate" /\ capture.batch > 1) => capture.at_start < capture.subset_size
    /\ (capture.single /\ capture.subset_size >= 1) => Len(Records) <= capture.subset_size

\* C14 as claimed: every inference call made through the wrapper, a direct
\* call included, appends exactly one record, in call order, before it is
\* forwarded, and the budget bounds the generation calls.
C14_AsClaimed ==
    InCapture
    => /\ Len(Records) = Outermost.calls
       /\ InCallOrder
       /\ ForwardedAfterRecord
       /\ WithinBudget

\* C14: in generation-capture mode every inference call made through the
\* wrapper by infer, by start_async or by a direct call that passes its
\* inputs appends exactly one record, in call order, before the call is
\* forwarded to the wrapped request; a direct call that passes no inputs
\* raises before anything is recorded or forwarded and ends the phase; a
\* generation call after the first is issued only while the number of
\* records is below the budget, so that when each generation call makes one
\* inference call and the budget is at least 1 the number of records never
\* exceeds the budget.
C14_CaptureRecords ==
    InCapture
    => /\ Len(Records) = Outermost.calls - Outermost.unbound
       /\ Outermost.unbound <= 1
       /\ Outermost.unbound = 1 => kpc = "raised"
       /\ InCallOrder
       /\ ForwardedAfterRecord
       /\ WithinBudget

\* The budget ends the loop before the dataloader is exhausted.
C14_Witness ==
    /\ kpc = "unwrap"
    /\ capture.batch < capture.batches
    /\ capture.subset_size = 1
    /\ Len(Records) = 1
    /\ Outermost.calls = 1
    /\ Outermost.forwarded = Records

\* C15: for every sequence of inputs, the records collected with
\* apply_caching=True are value-equal, entry by entry and key by key (same
\* bytes, same shape, same element type), to the records collected with
\* apply_caching=False.
C15_CachingKeepsValues ==
    /\ Len(cached.collected_inputs) = Len(plain.collected_inputs)
    /\ \A i \in DOMAIN plain.collected_inputs :
          LET c == cached.collected_inputs[i]
              d == plain.collected_inputs[i]
          IN  /\ c.kind = d.kind
              /\ c.keys = d.keys
              /\ \A k \in DOMAIN d.values :
                    /\ c.values[k].bytes = d.values[k].bytes
                    /\ c.values[k].shape = d.values[k].shape
                    /\ c.values[k].dtype = d.values[k].dtype

\* C16: whenever the capture phase is left, by exhaustion of the dataloader,
\* by the budget or by an exception of a generation call, model.request is
\* the original request again: no wrapper is left around it, no later
\* inference is recorded and a later capture phase never nests wrappers.
C16_InterceptionIsTemporary ==
    /\ kpc \in {"left", "raised"} => request = <<>>
    /\ Len(request) <= 1
    /\ \A i \in DOMAIN request :
          \A j \in DOMAIN request[i].collected_inputs :
              request[i].collected_inputs[j] # CaptureInputs(0)

====
